---- MODULE Spec2Model ----
(***************************************************************************)
(* Model of the arbitrage calculation engine of streamlit_app.py:          *)
(* calcular_arbitraje (cash-flow breakdown and viability verdict) and      *)
(* calcular_volumen_minimo (break-even volume), and of the dashboard       *)
(* script that applies them to every selected exchange for the official    *)
(* and the MEP rate, sorts the rows and fills the comparison tab.          *)
(*                                                                         *)
(* Python floats are modelled as exact rationals [n |-> , d |-> ] in       *)
(* lowest terms with d > 0; float('inf') is [n |-> 1, d |-> 0].  IEEE-754  *)
(* rounding is not modelled: the properties below are the algebraic ones,  *)
(* which the specification states "up to floating-point tolerance".  A     *)
(* division by zero yields the value ZeroDivisionError, as Python's float  *)
(* division raises instead of returning inf or nan.                        *)
(***************************************************************************)
EXTENDS Integers, Sequences, FiniteSets, TLC

VARIABLES dolar_compra, crypto_venta, volumen_usd, comision_pct,
          comision_usdt, vol_min, resultado, probe, pc

(* State of the dashboard script: the MEP buy price, the selected          *)
(* exchanges, what get_crypto_price returns for each of them, the loop     *)
(* index, the two result lists, the two sorted tables, and what the        *)
(* comparison tab shows.                                                   *)
VARIABLES mep_compra, exchanges_seleccionados, mercado, idx,
          resultados_oficial, resultados_mep, df_oficial, df_mep,
          panel_oficial, panel_mep, top_oficial, top_mep

dashVars == <<mep_compra, exchanges_seleccionados, mercado, idx,
              resultados_oficial, resultados_mep, df_oficial, df_mep,
              panel_oficial, panel_mep, top_oficial, top_mep>>

vars == <<dolar_compra, crypto_venta, volumen_usd, comision_pct,
          comision_usdt, vol_min, resultado, probe, pc, dashVars>>

params == <<dolar_compra, crypto_venta, comision_pct, comision_usdt>>

----------------------------------------------------------------------------
(* Bounds of the explored input grid.                                      *)

MaxPrice == 3

RateDen == 4

MaxFeeHalves == 3

MaxVolHalves == 6

MaxEpsDen == 3

----------------------------------------------------------------------------
(* Exact rational arithmetic standing for Python float arithmetic.         *)

Abs(n) == IF n < 0 THEN -n ELSE n

RECURSIVE GCD(_, _)
GCD(a, b) == IF b = 0 THEN a ELSE GCD(b, a % b)

Norm(n, d) ==
    LET g == GCD(Abs(n), d) IN [n |-> n \div g, d |-> d \div g]

Rat(n, d) == Norm(n, d)

Zero == [n |-> 0, d |-> 1]

Inf == [n |-> 1, d |-> 0]

IsFinite(a) == a.d # 0

Neg(a) == [n |-> -a.n, d |-> a.d]

Add(a, b) ==
    LET g == GCD(a.d, b.d)
    IN  Norm(a.n * (b.d \div g) + b.n * (a.d \div g), (a.d \div g) * b.d)

Sub(a, b) == Add(a, Neg(b))

Mul(a, b) ==
    LET g1 == GCD(Abs(a.n), b.d)
        g2 == GCD(Abs(b.n), a.d)
    IN  [n |-> (a.n \div g1) * (b.n \div g2),
         d |-> (a.d \div g2) * (b.d \div g1)]

ZeroDivisionError == [exception |-> "ZeroDivisionError"]

Raised(x) == x = ZeroDivisionError

Div(a, b) ==
    IF b.n = 0 THEN ZeroDivisionError
    ELSE IF b.n > 0 THEN Mul(a, [n |-> b.d, d |-> b.n])
    ELSE Mul(a, [n |-> -b.d, d |-> -b.n])

Leq(a, b) == a.n * b.d <= b.n * a.d

Lt(a, b) == a.n * b.d < b.n * a.d

Max(a, b) == IF Lt(a, b) THEN b ELSE a

One == [n |-> 1, d |-> 1]

Hundred == [n |-> 100, d |-> 1]

----------------------------------------------------------------------------
(* Program constants (sidebar defaults).                                   *)

COMISION_PORCENTAJE == Rat(3, 100)

COMISION_ENVIO_USDT == 1

VOLUMEN_MINIMO_DEFAULT == 100

----------------------------------------------------------------------------
(* calcular_arbitraje                                                      *)

(* Mutant: the fixed fee is not deducted from the volume.                  *)
usdt_netos_sin_descuento(p_volumen_usd, p_comision_usdt) == p_volumen_usd

(* usdt_netos = volumen_usd - comision_usdt                                *)
usdt_netos_de(p_volumen_usd, p_comision_usdt) ==
    Sub(p_volumen_usd, p_comision_usdt)

(* Mutant: the degenerate test is strict (usdt_netos < 0).                 *)
SinUsdtSuficientesEstricto(usdt_netos) == Lt(usdt_netos, Zero)

(* if usdt_netos <= 0                                                      *)
SinUsdtSuficientes(usdt_netos) == Leq(usdt_netos, Zero)

(* Mutant: the degenerate branch derives ganancia_usd by dividing by the   *)
(* buy price, as the normal branch does.                                   *)
ResultadoSinUsdtDividiendo(costo_inicial_ars, p_volumen_usd, p_dolar_compra) ==
    LET ganancia_usd == Div(Neg(costo_inicial_ars), p_dolar_compra)
    IN  IF Raised(ganancia_usd)
        THEN ZeroDivisionError
        ELSE [costo_inicial_ars   |-> costo_inicial_ars,
              usdt_netos          |-> Zero,
              ingresos_brutos_ars |-> Zero,
              comision_ars        |-> Zero,
              ingresos_netos_ars  |-> Zero,
              ganancia_ars        |-> Neg(costo_inicial_ars),
              ganancia_usd        |-> ganancia_usd,
              roi_porcentaje      |-> Neg(Hundred),
              viable              |-> FALSE]

(* Mutant: the degenerate branch reports the loss in ARS as ganancia_usd.   *)
ResultadoSinUsdtEnPesos(costo_inicial_ars, p_volumen_usd, p_dolar_compra) ==
    [costo_inicial_ars   |-> costo_inicial_ars,
     usdt_netos          |-> Zero,
     ingresos_brutos_ars |-> Zero,
     comision_ars        |-> Zero,
     ingresos_netos_ars  |-> Zero,
     ganancia_ars        |-> Neg(costo_inicial_ars),
     ganancia_usd        |-> Neg(costo_inicial_ars),
     roi_porcentaje      |-> Neg(Hundred),
     viable              |-> FALSE]

(* The dict returned when the fixed fee consumes the whole volume.         *)
ResultadoSinUsdt(costo_inicial_ars, p_volumen_usd, p_dolar_compra) ==
    [costo_inicial_ars   |-> costo_inicial_ars,
     usdt_netos          |-> Zero,
     ingresos_brutos_ars |-> Zero,
     comision_ars        |-> Zero,
     ingresos_netos_ars  |-> Zero,
     ganancia_ars        |-> Neg(costo_inicial_ars),
     ganancia_usd        |-> Neg(p_volumen_usd),
     roi_porcentaje      |-> Neg(Hundred),
     viable              |-> FALSE]

(* Mutant: the percentage fee is taken on the units, not on the proceeds.  *)
comision_ars_sobre_usdt(ingresos_brutos_ars, usdt_netos, p_comision_pct) ==
    Mul(usdt_netos, p_comision_pct)

(* comision_ars = ingresos_brutos_ars * comision_pct                       *)
comision_ars_de(ingresos_brutos_ars, usdt_netos, p_comision_pct) ==
    Mul(ingresos_brutos_ars, p_comision_pct)

(* Mutant: the profit is taken on the gross proceeds.                      *)
ganancia_ars_sobre_brutos(ingresos_brutos_ars, ingresos_netos_ars, costo_inicial_ars) ==
    Sub(ingresos_brutos_ars, costo_inicial_ars)

(* ganancia_ars = ingresos_netos_ars - costo_inicial_ars                   *)
ganancia_ars_de(ingresos_brutos_ars, ingresos_netos_ars, costo_inicial_ars) ==
    Sub(ingresos_netos_ars, costo_inicial_ars)

(* Mutant: zero profit counts as viable (ganancia_ars >= 0).               *)
EsViableNoEstricto(ganancia_ars) == Leq(Zero, ganancia_ars)

(* 'viable': ganancia_ars > 0                                              *)
EsViable(ganancia_ars) == Lt(Zero, ganancia_ars)

calcular_arbitraje(p_dolar_compra, p_crypto_venta, p_volumen_usd, p_comision_pct, p_comision_usdt) ==
    LET costo_inicial_ars == Mul(p_volumen_usd, p_dolar_compra)
        usdt_netos == usdt_netos_de(p_volumen_usd, p_comision_usdt)
    IN  IF SinUsdtSuficientes(usdt_netos)
        THEN ResultadoSinUsdt(costo_inicial_ars, p_volumen_usd, p_dolar_compra)
        ELSE LET ingresos_brutos_ars == Mul(usdt_netos, p_crypto_venta)
                 comision_ars ==
                     comision_ars_de(ingresos_brutos_ars, usdt_netos,
                                     p_comision_pct)
                 ingresos_netos_ars == Sub(ingresos_brutos_ars, comision_ars)
                 ganancia_ars ==
                     ganancia_ars_de(ingresos_brutos_ars, ingresos_netos_ars,
                                     costo_inicial_ars)
                 ganancia_usd == Div(ganancia_ars, p_dolar_compra)
                 roi_porcentaje ==
                     IF Lt(Zero, costo_inicial_ars)
                     THEN Mul(Div(ganancia_ars, costo_inicial_ars), Hundred)
                     ELSE Zero
             IN  IF Raised(ganancia_usd)
                 THEN ZeroDivisionError
                 ELSE [costo_inicial_ars   |-> costo_inicial_ars,
                       usdt_netos          |-> usdt_netos,
                       ingresos_brutos_ars |-> ingresos_brutos_ars,
                       comision_ars        |-> comision_ars,
                       ingresos_netos_ars  |-> ingresos_netos_ars,
                       ganancia_ars        |-> ganancia_ars,
                       ganancia_usd        |-> ganancia_usd,
                       roi_porcentaje      |-> roi_porcentaje,
                       viable              |-> EsViable(ganancia_ars)]

----------------------------------------------------------------------------
(* calcular_volumen_minimo                                                 *)

(* denominador = crypto_venta * (1 - comision_pct) - dolar_compra          *)
Denominador(p_dolar_compra, p_crypto_venta, p_comision_pct) ==
    Sub(Mul(p_crypto_venta, Sub(One, p_comision_pct)), p_dolar_compra)

(* Mutant: the unbounded test is strict (denominador < 0).                 *)
SinVolumenRentableEstricto(denominador) == Lt(denominador, Zero)

(* if denominador <= 0                                                     *)
SinVolumenRentable(denominador) == Leq(denominador, Zero)

(* Mutant: the numerator uses the buy price instead of the sell price.     *)
NumeradorSobreDolar(p_dolar_compra, p_crypto_venta, p_comision_pct, p_comision_usdt) ==
    Mul(Mul(p_comision_usdt, p_dolar_compra), Sub(One, p_comision_pct))

(* Mutant: the numerator omits the factor (1 - comision_pct).              *)
NumeradorSinComision(p_dolar_compra, p_crypto_venta, p_comision_pct, p_comision_usdt) ==
    Mul(p_comision_usdt, p_crypto_venta)

(* comision_usdt * crypto_venta * (1 - comision_pct)                       *)
Numerador(p_dolar_compra, p_crypto_venta, p_comision_pct, p_comision_usdt) ==
    Mul(Mul(p_comision_usdt, p_crypto_venta), Sub(One, p_comision_pct))

(* Mutant: min instead of max.                                             *)
NoNegativoMin(volumen_min) == IF Lt(volumen_min, Zero) THEN volumen_min ELSE Zero

(* max(volumen_min, 0)                                                     *)
NoNegativo(volumen_min) == Max(volumen_min, Zero)

calcular_volumen_minimo(p_dolar_compra, p_crypto_venta, p_comision_pct, p_comision_usdt) ==
    LET denominador ==
            Denominador(p_dolar_compra, p_crypto_venta, p_comision_pct)
    IN  IF SinVolumenRentable(denominador)
        THEN Inf
        ELSE LET volumen_min ==
                     Div(Numerador(p_dolar_compra, p_crypto_venta,
                                   p_comision_pct, p_comision_usdt),
                         denominador)
             IN  IF Raised(volumen_min) THEN ZeroDivisionError
                 ELSE NoNegativo(volumen_min)

----------------------------------------------------------------------------
(* Inputs: a grid of buy prices, sell prices, volumes, fee rates and fixed *)
(* fees that also holds values outside the documented domain (zero and     *)
(* negative buy price, fee rate outside [0,1], negative fixed fee), plus   *)
(* the two worked scenarios.                                               *)

BuyPrices == {Rat(k, 1) : k \in -1..MaxPrice}

SellPrices == {Rat(k, 1) : k \in 0..MaxPrice}

FeeRates == {Rat(k, RateDen) : k \in -1..(RateDen + 1)}

FixedFees == {Rat(k, 2) : k \in -1..MaxFeeHalves}

Volumes == {Rat(k, 2) : k \in 0..MaxVolHalves}

Epsilons == {Rat(1, k) : k \in 1..MaxEpsDen}

Scenario1 ==
    <<Rat(1000, 1), Rat(1050, 1), Rat(1000, 1), Rat(1, 100), Rat(1, 1)>>

Scenario2 ==
    <<Rat(1000, 1), Rat(990, 1), Rat(VOLUMEN_MINIMO_DEFAULT, 1),
      COMISION_PORCENTAJE, Rat(COMISION_ENVIO_USDT, 1)>>

Inputs ==
    (BuyPrices \X SellPrices \X Volumes \X FeeRates \X FixedFees)
        \cup {Scenario1, Scenario2}

NoResult == [exception |-> "none"]

(* Python's None.                                                          *)
NoneVal == [py |-> "None"]

(* The dashboard part of the state while only the two functions are        *)
(* exercised.                                                              *)
DashIdle ==
    /\ mep_compra = NoneVal
    /\ exchanges_seleccionados = <<>>
    /\ mercado = <<>>
    /\ idx = 0
    /\ resultados_oficial = <<>>
    /\ resultados_mep = <<>>
    /\ df_oficial = <<>>
    /\ df_mep = <<>>
    /\ panel_oficial = ""
    /\ panel_mep = ""
    /\ top_oficial = <<>>
    /\ top_mep = <<>>

Init ==
    /\ \E i \in Inputs :
          /\ dolar_compra = i[1]
          /\ crypto_venta = i[2]
          /\ volumen_usd = i[3]
          /\ comision_pct = i[4]
          /\ comision_usdt = i[5]
    /\ vol_min = Zero
    /\ resultado = NoResult
    /\ probe = "input"
    /\ pc = "start"
    /\ DashIdle

(* The break-even volume is solved for the configured prices and fees.     *)
Solve ==
    /\ pc = "start"
    /\ vol_min' = calcular_volumen_minimo(dolar_compra, crypto_venta,
                                          comision_pct, comision_usdt)
    /\ pc' = "solved"
    /\ UNCHANGED <<params, volumen_usd, resultado, probe, dashVars>>

(* The calculator is evaluated at the configured volume.                   *)
Compute ==
    /\ pc = "solved"
    /\ resultado' = calcular_arbitraje(dolar_compra, crypto_venta, volumen_usd,
                                       comision_pct, comision_usdt)
    /\ pc' = "done"
    /\ UNCHANGED <<params, volumen_usd, vol_min, probe, dashVars>>

EvalAt(v, tag) ==
    /\ pc = "solved"
    /\ ~Raised(vol_min)
    /\ IsFinite(vol_min)
    /\ volumen_usd' = v
    /\ probe' = tag
    /\ resultado' = calcular_arbitraje(dolar_compra, crypto_venta, v,
                                       comision_pct, comision_usdt)
    /\ pc' = "done"
    /\ UNCHANGED <<params, vol_min, dashVars>>

(* The calculator is evaluated exactly at the break-even volume.           *)
ComputeAtBreakEven == EvalAt(vol_min, "at")

(* The calculator is evaluated at the break-even volume plus eps.          *)
ComputeAbove == \E e \in Epsilons : EvalAt(Add(vol_min, e), "above")

(* The calculator is evaluated at the break-even volume minus eps.         *)
ComputeBelow == \E e \in Epsilons : EvalAt(Sub(vol_min, e), "below")

Next ==
    \/ Solve
    \/ Compute
    \/ ComputeAtBreakEven
    \/ ComputeAbove
    \/ ComputeBelow

Spec == Init /\ [][Next]_vars

----------------------------------------------------------------------------
(* State predicates used by the properties.                                *)

(* The documented domain of the prices and commissions.                    *)
ValidParams ==
    /\ Lt(Zero, dolar_compra)
    /\ Lt(Zero, crypto_venta)
    /\ Leq(Zero, comision_pct)
    /\ Leq(comision_pct, One)
    /\ Leq(Zero, comision_usdt)

Den == Denominador(dolar_compra, crypto_venta, comision_pct)

Solved == pc # "start"

Done == pc = "done"

Returned == Done /\ ~Raised(resultado)

----------------------------------------------------------------------------
(* C1: on the valid domain with denominador > 0, the calculator is viable  *)
(* at every volume beyond the solver's break-even volume (the volume equal *)
(* to the break-even volume is the exempted boundary).                     *)
C1_ViableAboveMinimum ==
    (Done /\ ValidParams /\ Lt(Zero, Den) /\ Lt(vol_min, volumen_usd))
        => (~Raised(resultado) /\ resultado.viable)

C1_Witness ==
    /\ Returned /\ ValidParams /\ Lt(Zero, Den)
    /\ probe = "input"
    /\ Lt(Zero, comision_usdt)
    /\ Lt(Zero, comision_pct)
    /\ Lt(vol_min, volumen_usd)
    /\ resultado.viable

(* C2: boundary law: on the valid domain with denominador > 0, the         *)
(* calculator is viable at V0 + eps and not viable at V0 - eps, also when  *)
(* V0 = 0 and when V0 - eps is at or below the fixed fee.                  *)
C2_BoundaryLaw ==
    (Done /\ ValidParams /\ Lt(Zero, Den)) =>
        /\ probe = "above" =>
              /\ Lt(vol_min, volumen_usd)
              /\ ~Raised(resultado) /\ resultado.viable
        /\ probe = "below" =>
              /\ Lt(volumen_usd, vol_min)
              /\ ~Raised(resultado) /\ ~resultado.viable

C2_Witness ==
    /\ Returned /\ ValidParams /\ Lt(Zero, Den)
    /\ probe = "below"
    /\ Lt(comision_usdt, volumen_usd)
    /\ Lt(volumen_usd, vol_min)
    /\ ~resultado.viable

(* Further cases of C2 that are reached: above the boundary, below it with *)
(* V0 = 0, and below it at or under the fixed fee.                         *)
C2_WitnessAbove ==
    /\ Returned /\ ValidParams /\ Lt(Zero, Den)
    /\ probe = "above" /\ Lt(Zero, comision_usdt) /\ resultado.viable

C2_WitnessZeroFee ==
    /\ Returned /\ ValidParams /\ Lt(Zero, Den)
    /\ probe = "below" /\ comision_usdt = Zero /\ vol_min = Zero
    /\ ~resultado.viable

C2_WitnessUnderFee ==
    /\ Returned /\ ValidParams /\ Lt(Zero, Den)
    /\ probe = "below" /\ Lt(Zero, comision_usdt)
    /\ Leq(volumen_usd, comision_usdt) /\ ~resultado.viable

(* C3: on the valid domain, when the solver returns +Infinity the          *)
(* calculator is not viable at any volume > 0.                             *)
C3_InfiniteMeansNeverViable ==
    (Done /\ ValidParams /\ vol_min = Inf /\ Lt(Zero, volumen_usd))
        => (~Raised(resultado) /\ ~resultado.viable)

C3_Witness ==
    /\ Returned /\ ValidParams /\ vol_min = Inf
    /\ Lt(comision_usdt, volumen_usd)
    /\ Lt(dolar_compra, crypto_venta)
    /\ ~resultado.viable

(* C4: on the valid domain with denominador > 0, the calculator evaluated  *)
(* at the solver's break-even volume returns ganancia_ars = 0 and is not   *)
(* viable.                                                                 *)
C4_ZeroProfitAtMinimum ==
    (Done /\ ValidParams /\ Lt(Zero, Den) /\ probe = "at") =>
        /\ volumen_usd = vol_min
        /\ ~Raised(resultado)
        /\ resultado.ganancia_ars = Zero
        /\ ~resultado.viable

C4_Witness ==
    /\ Returned /\ ValidParams /\ Lt(Zero, Den)
    /\ probe = "at"
    /\ Lt(Zero, comision_usdt)
    /\ Lt(Zero, comision_pct)
    /\ Lt(Zero, resultado.usdt_netos)
    /\ resultado.ganancia_ars = Zero

(* C5: for volume > fixed fee (and a buy price other than 0) the returned  *)
(* fields are initialCost = volume*buyPrice, netUnits = volume - fixedFee, *)
(* grossProceeds = netUnits*sellPrice, feeAmount = grossProceeds*feeRate,  *)
(* netProceeds = grossProceeds - feeAmount, profitLocal = netProceeds -    *)
(* initialCost, profitUSD = profitLocal/buyPrice, roiPercent =             *)
(* profitLocal/initialCost*100 if initialCost > 0 else 0; and the worked   *)
(* scenario 1000, 1050, 1000, 0.01, 1 yields the documented figures.       *)
C5_Expected ==
    LET costo == Mul(volumen_usd, dolar_compra)
        netos == Sub(volumen_usd, comision_usdt)
        brutos == Mul(netos, crypto_venta)
        comision == Mul(brutos, comision_pct)
        ingresos == Sub(brutos, comision)
        ganancia == Sub(ingresos, costo)
    IN  [costo_inicial_ars   |-> costo,
         usdt_netos          |-> netos,
         ingresos_brutos_ars |-> brutos,
         comision_ars        |-> comision,
         ingresos_netos_ars  |-> ingresos,
         ganancia_ars        |-> ganancia,
         ganancia_usd        |-> Div(ganancia, dolar_compra),
         roi_porcentaje      |-> IF Lt(Zero, costo)
                                 THEN Mul(Div(ganancia, costo), Hundred)
                                 ELSE Zero,
         viable              |-> Lt(Zero, ganancia)]

C5_ScenarioFigures ==
    [costo_inicial_ars   |-> Rat(1000000, 1),
     usdt_netos          |-> Rat(999, 1),
     ingresos_brutos_ars |-> Rat(1048950, 1),
     comision_ars        |-> Rat(104895, 10),
     ingresos_netos_ars  |-> Rat(10384605, 10),
     ganancia_ars        |-> Rat(384605, 10),
     ganancia_usd        |-> Rat(384605, 10000),
     roi_porcentaje      |-> Rat(384605, 100000),
     viable              |-> TRUE]

InScenario1 ==
    <<dolar_compra, crypto_venta, volumen_usd, comision_pct, comision_usdt>>
        = Scenario1

C5_NormalBranchFields ==
    /\ (Done /\ dolar_compra # Zero /\ Lt(comision_usdt, volumen_usd))
          => resultado = C5_Expected
    /\ (Done /\ InScenario1) => resultado = C5_ScenarioFigures

C5_Witness ==
    /\ Returned /\ InScenario1
    /\ resultado.ganancia_ars = Rat(384605, 10)
    /\ resultado.viable

(* C6: for prices > 0, volume > fixed fee >= 0 and fee rate in [0,1], the  *)
(* viable flag is true iff the returned ganancia_ars is > 0 (zero profit   *)
(* is not viable), and the returned ganancia_ars equals the returned       *)
(* ingresos_netos_ars minus the returned costo_inicial_ars.                *)
C6_ViableIffPositiveProfit ==
    (Done /\ ValidParams /\ Lt(comision_usdt, volumen_usd)) =>
        /\ ~Raised(resultado)
        /\ resultado.viable <=> Lt(Zero, resultado.ganancia_ars)
        /\ resultado.ganancia_ars = Zero => ~resultado.viable
        /\ resultado.ganancia_ars =
              Sub(resultado.ingresos_netos_ars, resultado.costo_inicial_ars)

C6_Witness ==
    /\ Returned /\ ValidParams /\ Lt(comision_usdt, volumen_usd)
    /\ probe = "input"
    /\ resultado.ganancia_ars = Zero
    /\ ~resultado.viable

(* C7: degenerate law: for every input with volume <= fixed fee the result *)
(* is ganancia_ars = -volume*buyPrice, ganancia_usd = -volume, roi = -100, *)
(* viable = false, costo_inicial_ars = volume*buyPrice and usdt_netos,     *)
(* ingresos_brutos_ars, comision_ars, ingresos_netos_ars all 0, whatever   *)
(* the sell price and the fee rate.                                        *)
C7_DegenerateLaw ==
    (Done /\ Leq(volumen_usd, comision_usdt)) =>
        resultado =
            [costo_inicial_ars   |-> Mul(volumen_usd, dolar_compra),
             usdt_netos          |-> Zero,
             ingresos_brutos_ars |-> Zero,
             comision_ars        |-> Zero,
             ingresos_netos_ars  |-> Zero,
             ganancia_ars        |-> Neg(Mul(volumen_usd, dolar_compra)),
             ganancia_usd        |-> Neg(volumen_usd),
             roi_porcentaje      |-> Neg(Hundred),
             viable              |-> FALSE]

C7_Witness ==
    /\ Returned
    /\ volumen_usd = comision_usdt
    /\ Lt(Zero, volumen_usd)
    /\ Lt(Zero, crypto_venta)
    /\ resultado.roi_porcentaje = Neg(Hundred)
    /\ ~resultado.viable

(* C8: unbounded law: for every input with sellPrice*(1 - feeRate) <=      *)
(* buyPrice (equality included) the solver returns +Infinity, whatever the *)
(* fixed fee; so it does for 1000, 990, 0.03, 1.                           *)
C8_UnboundedLaw ==
    /\ (Solved /\ Leq(Mul(crypto_venta, Sub(One, comision_pct)), dolar_compra))
          => vol_min = Inf
    /\ (Solved /\ params = <<Scenario2[1], Scenario2[2], Scenario2[4],
                             Scenario2[5]>>)
          => vol_min = Inf

C8_Witness ==
    /\ Solved
    /\ Mul(crypto_venta, Sub(One, comision_pct)) = dolar_compra
    /\ Lt(Zero, dolar_compra)
    /\ comision_usdt = Zero
    /\ vol_min = Inf

(* C9: on the valid domain with denominador > 0 the solver returns exactly *)
(* fixedFee*sellPrice*(1 - feeRate)/denominador, which is >= 0 (the clamp  *)
(* changes nothing); the returned value is a finite number >= 0 or         *)
(* +Infinity, never negative.                                              *)
C9_MinimumVolumeValue ==
    /\ (Solved /\ ValidParams /\ Lt(Zero, Den)) =>
          /\ vol_min =
                Div(Mul(Mul(comision_usdt, crypto_venta),
                        Sub(One, comision_pct)), Den)
          /\ IsFinite(vol_min)
    /\ Solved => (vol_min = Inf \/ (IsFinite(vol_min) /\ Leq(Zero, vol_min)))

C9_Witness ==
    /\ Solved /\ ValidParams /\ Lt(Zero, Den)
    /\ Lt(Zero, comision_usdt)
    /\ Lt(Zero, comision_pct)
    /\ IsFinite(vol_min)
    /\ Lt(Zero, vol_min)

(* C10: totality: the calculator raises exactly when the buy price is 0    *)
(* and volume > fixed fee (so never on the valid domain, and not when the  *)
(* buy price is 0 and volume <= fixed fee); the solver never raises.       *)
C10_Totality ==
    /\ Done => (Raised(resultado) <=>
                    (dolar_compra = Zero /\ Lt(comision_usdt, volumen_usd)))
    /\ Done => resultado # NoResult
    /\ Solved => ~Raised(vol_min)

C10_Witness ==
    /\ Done
    /\ dolar_compra = Zero
    /\ Lt(comision_usdt, volumen_usd)
    /\ Raised(resultado)

C10_WitnessDegenerateAtZero ==
    /\ Returned
    /\ dolar_compra = Zero
    /\ Leq(volumen_usd, comision_usdt)
    /\ ~resultado.viable

(* C14: on the valid domain with volume > 0, a viable result implies that  *)
(* the solver's break-even volume is finite and strictly below the volume. *)
C14_ViableImpliesAboveMinimum ==
    (Done /\ ValidParams /\ Lt(Zero, volumen_usd) /\ ~Raised(resultado)
          /\ resultado.viable)
        => (IsFinite(vol_min) /\ Lt(vol_min, volumen_usd))

C14_Witness ==
    /\ Returned /\ ValidParams /\ Lt(Zero, volumen_usd)
    /\ probe = "input"
    /\ Lt(Zero, comision_usdt)
    /\ resultado.viable
    /\ IsFinite(vol_min)
    /\ Lt(vol_min, volumen_usd)

(* C15: for buy price > 0 and volume > 0, in both branches of the          *)
(* calculator the returned fields satisfy ganancia_ars = ingresos_netos -  *)
(* costo_inicial, ganancia_usd = ganancia_ars / buy price, roi =           *)
(* ganancia_ars / costo_inicial * 100, comision_ars = ingresos_brutos *    *)
(* fee rate, and viable <=> ganancia_ars > 0 <=> roi > 0 <=> ganancia_usd  *)
(* > 0.                                                                    *)
C15_BranchesAgree ==
    (Done /\ Lt(Zero, dolar_compra) /\ Lt(Zero, volumen_usd)) =>
        /\ ~Raised(resultado)
        /\ resultado.ganancia_ars =
              Sub(resultado.ingresos_netos_ars, resultado.costo_inicial_ars)
        /\ resultado.ganancia_usd = Div(resultado.ganancia_ars, dolar_compra)
        /\ resultado.roi_porcentaje =
              Mul(Div(resultado.ganancia_ars, resultado.costo_inicial_ars),
                  Hundred)
        /\ resultado.comision_ars =
              Mul(resultado.ingresos_brutos_ars, comision_pct)
        /\ resultado.viable <=> Lt(Zero, resultado.ganancia_ars)
        /\ resultado.viable <=> Lt(Zero, resultado.roi_porcentaje)
        /\ resultado.viable <=> Lt(Zero, resultado.ganancia_usd)

C15_Witness ==
    /\ Returned
    /\ Lt(One, dolar_compra)
    /\ Lt(Zero, volumen_usd)
    /\ Leq(volumen_usd, comision_usdt)
    /\ resultado.ganancia_usd = Div(resultado.ganancia_ars, dolar_compra)
    /\ resultado.roi_porcentaje = Neg(Hundred)

(* C16: on the valid domain with denominador > 0 the break-even volume is  *)
(* >= the fixed fee, and > the fixed fee when the fixed fee is > 0; so a   *)
(* volume at or above the break-even volume with fixed fee > 0 is          *)
(* evaluated by the non-degenerate branch.                                 *)
C16_MinimumAboveFixedFee ==
    /\ (Solved /\ ValidParams /\ Lt(Zero, Den)) =>
          /\ IsFinite(vol_min)
          /\ Leq(comision_usdt, vol_min)
          /\ Lt(Zero, comision_usdt) => Lt(comision_usdt, vol_min)
    /\ (Done /\ ValidParams /\ Lt(Zero, Den) /\ Lt(Zero, comision_usdt)
             /\ Leq(vol_min, volumen_usd)) =>
          /\ ~Raised(resultado)
          /\ Lt(Zero, resultado.usdt_netos)
          /\ resultado.usdt_netos = Sub(volumen_usd, comision_usdt)

C16_Witness ==
    /\ Returned /\ ValidParams /\ Lt(Zero, Den)
    /\ Lt(Zero, comision_usdt)
    /\ Lt(comision_usdt, vol_min)
    /\ probe = "at"
    /\ Lt(Zero, resultado.usdt_netos)

----------------------------------------------------------------------------
(* The dashboard script: quotes, the per-exchange loop, the sorted tables  *)
(* and the comparison tab.                                                 *)

MaxExchanges == 3

TopExchanges == 6

(* The first entries of EXCHANGES.                                         *)
EXCHANGES ==
    <<"binancep2p", "belo", "astropay", "bitso", "trubit", "binance",
      "tiendacrypto", "fiwind">>

(* exchange.upper()                                                        *)
upper ==
    ("binancep2p" :> "BINANCEP2P") @@ ("belo" :> "BELO")
        @@ ("astropay" :> "ASTROPAY") @@ ("bitso" :> "BITSO")
        @@ ("trubit" :> "TRUBIT") @@ ("binance" :> "BINANCE")
        @@ ("tiendacrypto" :> "TIENDACRYPTO") @@ ("fiwind" :> "FIWIND")

(* df.head(5)                                                              *)
TopN == 5

Range(seq) == {seq[i] : i \in 1..Len(seq)}

Reverse(seq) == [i \in 1..Len(seq) |-> seq[Len(seq) + 1 - i]]

Min(a, b) == IF a < b THEN a ELSE b

(* Mutant: "is not None" instead of truthiness, so that 0 passes.          *)
TruthyNoNone(x) == x # NoneVal

(* if dolar_compra: / if mep_compra: -- None and 0 are falsy.              *)
Truthy(x) == x # NoneVal /\ x # Zero

(* Mutant: only the response is tested, not the presence of totalBid.      *)
TieneRespuesta(crypto_data) == crypto_data # NoneVal

(* if crypto_data and 'totalBid' in crypto_data                            *)
TieneTotalBid(crypto_data) ==
    crypto_data # NoneVal /\ "totalBid" \in DOMAIN crypto_data

KeyError == [exception |-> "KeyError"]

(* crypto_data['totalBid']                                                 *)
TotalBid(crypto_data) ==
    IF "totalBid" \in DOMAIN crypto_data THEN crypto_data.totalBid
    ELSE KeyError

(* get_crypto_price(exchange): None when the request fails, else the JSON  *)
(* document, which holds totalBid or not.                                  *)
get_crypto_price(exchange) == mercado[exchange]

(* 'Ganancia ARS': resultado['ganancia_ars']                               *)
FilaGanancia(res, vm) == res.ganancia_ars

(* The dict appended to resultados_oficial / resultados_mep: the           *)
(* calculator, the solver and the spread for one exchange and one source.  *)
Fila(exchange, compra, p_crypto_venta, p_volumen_usd, p_comision_pct, p_comision_usdt) ==
    LET res == calcular_arbitraje(compra, p_crypto_venta, p_volumen_usd,
                                  p_comision_pct, p_comision_usdt)
        vm == calcular_volumen_minimo(compra, p_crypto_venta, p_comision_pct,
                                      p_comision_usdt)
        spread == Div(Sub(p_crypto_venta, compra), compra)
    IN  IF Raised(res) \/ Raised(vm) \/ Raised(spread)
        THEN ZeroDivisionError
        ELSE [Exchange       |-> upper[exchange],
              Precio_USDT    |-> p_crypto_venta,
              Spread_pct     |-> Mul(spread, Hundred),
              Ganancia_ARS   |-> FilaGanancia(res, vm),
              Ganancia_USD   |-> res.ganancia_usd,
              ROI_pct        |-> res.roi_porcentaje,
              Viable         |-> res.viable,
              Vol_Minimo_USD |-> vm,
              Detalles       |-> res]

RemoveAt(seq, i) == SubSeq(seq, 1, i - 1) \o SubSeq(seq, i + 1, Len(seq))

(* Every ordering of the rows by 'Ganancia ARS' that a sort can return:    *)
(* the default sort kind is not stable, so rows with equal profit come in  *)
(* any order.                                                              *)
RECURSIVE Ordenadas(_, _)
Ordenadas(filas, ascending) ==
    IF Len(filas) = 0 THEN {<<>>}
    ELSE LET primeros ==
                 {i \in 1..Len(filas) :
                     \A j \in 1..Len(filas) :
                         IF ascending
                         THEN Leq(filas[i].Ganancia_ARS, filas[j].Ganancia_ARS)
                         ELSE Leq(filas[j].Ganancia_ARS, filas[i].Ganancia_ARS)}
         IN  UNION {{<<filas[i]>> \o t : t \in Ordenadas(RemoveAt(filas, i), ascending)} : i \in primeros}

(* Mutant: ascending=True.                                                 *)
sort_values_ascendente(filas) == Ordenadas(filas, TRUE)

(* pd.DataFrame(resultados).sort_values('Ganancia ARS', ascending=False)   *)
sort_values(filas) == Ordenadas(filas, FALSE)

(* Mutant: the last row of the table is taken as the best one.             *)
iloc_ultimo(df) == df[Len(df)]

(* df.iloc[0]                                                              *)
iloc0(df) == df[1]

EsFilaViable(fila) == fila.Viable

(* df[df['Viable']].head(5)                                                *)
TopViables(df) ==
    LET viables == SelectSeq(df, EsFilaViable)
    IN  SubSeq(viables, 1, Min(TopN, Len(viables)))

(* The best-opportunity panel: st.success when the best row is viable,     *)
(* else st.error("No hay oportunidades viables").                          *)
Panel(df) == IF iloc0(df).Viable THEN "success" ELSE "error"

----------------------------------------------------------------------------
(* Inputs of the dashboard.                                                *)

(* Sidebar: (volumen_usd >= 1, comision_pct in [0,1], comision_usdt >= 0). *)
Sidebars ==
    {<<Rat(2, 1), Rat(1, 4), Rat(1, 2)>>,
     <<Rat(1, 1), Zero, Rat(COMISION_ENVIO_USDT, 1)>>}

(* 'compra' of a rate source: None when the quote failed.                  *)
Compras == {NoneVal, Zero, Rat(-1, 1), One}

Bids == {One, Rat(2, 1)}

Quotes == {NoneVal, [status |-> "error"]} \cup {[totalBid |-> b] : b \in Bids}

Pool == SubSeq(EXCHANGES, 1, MaxExchanges)

EnPool(S) == SelectSeq(Pool, LAMBDA e : e \in S)

(* The selected exchanges: the whole list, or a multiselect of it.         *)
Selections ==
    {EnPool(S) : S \in SUBSET Range(Pool)}
        \cup {Reverse(EnPool(S)) : S \in SUBSET Range(Pool)}

DashLocals ==
    /\ crypto_venta = NoneVal
    /\ vol_min = Zero
    /\ resultado = NoResult
    /\ probe = "none"
    /\ idx = 0
    /\ resultados_oficial = <<>>
    /\ resultados_mep = <<>>
    /\ df_oficial = <<>>
    /\ df_mep = <<>>
    /\ panel_oficial = ""
    /\ panel_mep = ""
    /\ top_oficial = <<>>
    /\ top_mep = <<>>
    /\ pc = "datos"

InitGeneral ==
    /\ \E sb \in Sidebars :
          /\ volumen_usd = sb[1]
          /\ comision_pct = sb[2]
          /\ comision_usdt = sb[3]
    /\ dolar_compra \in Compras
    /\ mep_compra \in Compras
    /\ exchanges_seleccionados \in Selections
    /\ mercado \in [Range(exchanges_seleccionados) -> Quotes]
    /\ DashLocals

(* More than five exchanges, all selected, with both sources quoted.       *)
InitTop ==
    /\ volumen_usd = Rat(2, 1)
    /\ comision_pct = Rat(1, 4)
    /\ comision_usdt = Rat(1, 2)
    /\ dolar_compra = One
    /\ mep_compra = Rat(2, 1)
    /\ exchanges_seleccionados = SubSeq(EXCHANGES, 1, TopExchanges)
    /\ \E k \in [1..TopExchanges -> 0..2] :
          mercado = [e \in Range(exchanges_seleccionados) |->
                        LET i == CHOOSE j \in 1..TopExchanges : EXCHANGES[j] = e
                        IN  IF k[i] = 0 THEN NoneVal
                            ELSE [totalBid |-> Rat(i + k[i], 1)]]
    /\ DashLocals

InitDash == InitGeneral \/ InitTop

inputVars == <<dolar_compra, mep_compra, volumen_usd, comision_pct, comision_usdt, exchanges_seleccionados, mercado, vol_min, resultado, probe>>

shownVars == <<panel_oficial, panel_mep, top_oficial, top_mep>>

(* Lines 264-337: stop when no rate source answered or no exchange is      *)
(* selected, else start the loop.                                          *)
IniciarConsulta ==
    /\ pc = "datos"
    /\ IF dolar_compra = NoneVal /\ mep_compra = NoneVal
       THEN pc' = "stopped" /\ idx' = idx
       ELSE IF Len(exchanges_seleccionados) = 0
       THEN pc' = "stopped" /\ idx' = idx
       ELSE pc' = "loop" /\ idx' = 1
    /\ UNCHANGED <<inputVars, crypto_venta, resultados_oficial, resultados_mep, df_oficial, df_mep, shownVars>>

(* Lines 339-404: one iteration of the loop over the selected exchanges.   *)
ConsultarExchange ==
    /\ pc = "loop"
    /\ idx <= Len(exchanges_seleccionados)
    /\ LET exchange == exchanges_seleccionados[idx]
           crypto_data == get_crypto_price(exchange)
       IN  IF ~TieneTotalBid(crypto_data)
           THEN /\ pc' = pc
                /\ idx' = idx + 1
                /\ UNCHANGED <<crypto_venta, resultados_oficial, resultados_mep>>
           ELSE IF TotalBid(crypto_data) = KeyError
           THEN /\ pc' = "KeyError"
                /\ UNCHANGED <<idx, crypto_venta, resultados_oficial, resultados_mep>>
           ELSE LET cv == TotalBid(crypto_data)
                    fila_oficial ==
                        Fila(exchange, dolar_compra, cv, volumen_usd,
                             comision_pct, comision_usdt)
                    fila_mep ==
                        Fila(exchange, mep_compra, cv, volumen_usd,
                             comision_pct, comision_usdt)
                    falla_oficial ==
                        Truthy(dolar_compra) /\ Raised(fila_oficial)
                    falla_mep == Truthy(mep_compra) /\ Raised(fila_mep)
                IN  /\ crypto_venta' = cv
                    /\ resultados_oficial' =
                          IF Truthy(dolar_compra) /\ ~falla_oficial
                          THEN Append(resultados_oficial, fila_oficial)
                          ELSE resultados_oficial
                    /\ resultados_mep' =
                          IF Truthy(mep_compra) /\ ~falla_oficial /\ ~falla_mep
                          THEN Append(resultados_mep, fila_mep)
                          ELSE resultados_mep
                    /\ IF falla_oficial \/ falla_mep
                       THEN pc' = "ZeroDivisionError" /\ idx' = idx
                       ELSE pc' = pc /\ idx' = idx + 1
    /\ UNCHANGED <<inputVars, df_oficial, df_mep, shownVars>>

(* Lines 406-415: after the loop, stop when both lists are empty, else     *)
(* build the sorted table of each non-empty list (an empty list gives      *)
(* None, modelled as the empty table).                                     *)
CrearDataFrames ==
    /\ pc = "loop"
    /\ idx > Len(exchanges_seleccionados)
    /\ IF Len(resultados_oficial) = 0 /\ Len(resultados_mep) = 0
       THEN pc' = "stopped" /\ UNCHANGED <<df_oficial, df_mep>>
       ELSE /\ pc' = "tabs"
            /\ df_oficial' \in sort_values(resultados_oficial)
            /\ df_mep' \in sort_values(resultados_mep)
    /\ UNCHANGED <<inputVars, crypto_venta, idx, resultados_oficial, resultados_mep, shownVars>>

(* Lines 431-516: the comparison tab, shown when both tables exist.  The   *)
(* recommendation tests the truth value of the two best rows, which are    *)
(* Series: pandas raises ValueError there, after the chart was drawn.      *)
MostrarComparacion ==
    /\ pc = "tabs"
    /\ Len(df_oficial) > 0 /\ Len(df_mep) > 0
    /\ panel_oficial' = Panel(df_oficial)
    /\ panel_mep' = Panel(df_mep)
    /\ top_oficial' = TopViables(df_oficial)
    /\ top_mep' = TopViables(df_mep)
    /\ pc' = IF Len(TopViables(df_oficial)) > 0 \/ Len(TopViables(df_mep)) > 0
             THEN "ValueError"
             ELSE "shown"
    /\ UNCHANGED <<inputVars, crypto_venta, idx, resultados_oficial, resultados_mep, df_oficial, df_mep>>

(* Lines 420-425: only one table exists, there is no comparison tab.       *)
MostrarUnaFuente ==
    /\ pc = "tabs"
    /\ Len(df_oficial) = 0 \/ Len(df_mep) = 0
    /\ pc' = "shown"
    /\ UNCHANGED <<inputVars, crypto_venta, idx, resultados_oficial, resultados_mep, df_oficial, df_mep, shownVars>>

NextDash ==
    \/ IniciarConsulta
    \/ ConsultarExchange
    \/ CrearDataFrames
    \/ MostrarComparacion
    \/ MostrarUnaFuente

SpecDash == InitDash /\ [][NextDash]_vars

----------------------------------------------------------------------------
(* State predicates used by the dashboard properties.                      *)

Sources == {"oficial", "mep"}

CompraDe(src) == IF src = "oficial" THEN dolar_compra ELSE mep_compra

ResultadosDe(src) ==
    IF src = "oficial" THEN resultados_oficial ELSE resultados_mep

DfDe(src) == IF src = "oficial" THEN df_oficial ELSE df_mep

PanelDe(src) == IF src = "oficial" THEN panel_oficial ELSE panel_mep

TopDe(src) == IF src = "oficial" THEN top_oficial ELSE top_mep

(* The buy price of the source is available: the quote arrived and is not  *)
(* 0 (the script shows "No disponible" otherwise).                         *)
Disponible(src) == CompraDe(src) # NoneVal /\ CompraDe(src) # Zero

LoopRaised == pc \in {"ZeroDivisionError", "KeyError"}

AfterLoop ==
    /\ pc \in {"loop", "tabs", "shown", "ValueError", "stopped"}
    /\ idx > Len(exchanges_seleccionados)

Sorted == pc \in {"tabs", "shown", "ValueError"}

ComparisonShown ==
    /\ pc \in {"shown", "ValueError"}
    /\ Len(df_oficial) > 0
    /\ Len(df_mep) > 0

(* The selected exchanges among the first n whose quote came with a        *)
(* totalBid.                                                               *)
Delivered(n) ==
    SelectSeq(SubSeq(exchanges_seleccionados, 1, n),
              LAMBDA e : mercado[e] # NoneVal
                            /\ "totalBid" \in DOMAIN mercado[e])

(* The row of one exchange, from that exchange's own price alone.          *)
OwnRow(e, compra) ==
    LET precio == mercado[e].totalBid
        res == calcular_arbitraje(compra, precio, volumen_usd, comision_pct,
                                  comision_usdt)
    IN  [Exchange       |-> upper[e],
         Precio_USDT    |-> precio,
         Spread_pct     |-> Mul(Div(Sub(precio, compra), compra), Hundred),
         Ganancia_ARS   |-> res.ganancia_ars,
         Ganancia_USD   |-> res.ganancia_usd,
         ROI_pct        |-> res.roi_porcentaje,
         Viable         |-> res.viable,
         Vol_Minimo_USD |-> calcular_volumen_minimo(compra, precio,
                                                    comision_pct,
                                                    comision_usdt),
         Detalles       |-> res]

OwnRows(src, n) ==
    [i \in 1..Len(Delivered(n)) |-> OwnRow(Delivered(n)[i], CompraDe(src))]

Count(seq, x) == Cardinality({i \in 1..Len(seq) : seq[i] = x})

NumViables(seq) == Cardinality({i \in 1..Len(seq) : seq[i].Viable})

(* C11: at every point of the loop and after it, for each source whose buy *)
(* price is available, the result list holds exactly one row per processed *)
(* exchange whose quote came with a totalBid, in selection order, and none *)
(* for an exchange whose quote is missing; each row is the calculator and  *)
(* the solver applied to that exchange's own price; a missing quote never  *)
(* raises.                                                                 *)
C11_OneRowPerDeliveredQuote ==
    /\ ~LoopRaised
    /\ \A src \in Sources :
          Disponible(src) => ResultadosDe(src) = OwnRows(src, idx - 1)

C11_Witness ==
    /\ AfterLoop
    /\ Disponible("oficial")
    /\ Len(exchanges_seleccionados) = 3
    /\ exchanges_seleccionados[1] # EXCHANGES[1]
    /\ mercado[exchanges_seleccionados[2]] = NoneVal
    /\ mercado[exchanges_seleccionados[1]] # mercado[exchanges_seleccionados[3]]
    /\ Len(resultados_oficial) = 2
    /\ resultados_oficial[1].Exchange = upper[exchanges_seleccionados[1]]
    /\ resultados_oficial[2].Exchange = upper[exchanges_seleccionados[3]]

(* C12: each sorted table is a permutation of the rows computed in the     *)
(* loop, ordered by Ganancia ARS non-increasing, so its first row has the  *)
(* maximum Ganancia ARS of its source.                                     *)
C12_SortedByProfit ==
    Sorted => \A src \in Sources :
        LET df == DfDe(src)
            filas == ResultadosDe(src)
        IN  /\ Len(df) = Len(filas)
            /\ \A i \in 1..Len(filas) :
                  Count(df, filas[i]) = Count(filas, filas[i])
            /\ \A i \in 1..Len(df) : \A j \in i..Len(df) :
                  Leq(df[j].Ganancia_ARS, df[i].Ganancia_ARS)
            /\ \A i \in 1..Len(filas) :
                  Leq(filas[i].Ganancia_ARS, df[1].Ganancia_ARS)

C12_Witness ==
    /\ Sorted
    /\ Len(df_oficial) = 3
    /\ df_oficial # resultados_oficial
    /\ Lt(df_oficial[2].Ganancia_ARS, df_oficial[1].Ganancia_ARS)
    /\ df_oficial[1] = resultados_oficial[3]

(* C13: the loop never divides by zero: a source whose quote failed or     *)
(* whose compra is 0 gets no row for any exchange, while a negative compra *)
(* is passed through to the calculator.                                    *)
C13_NoCallWithMissingOrZeroBuyPrice ==
    /\ pc # "ZeroDivisionError"
    /\ \A src \in Sources :
          /\ (CompraDe(src) = NoneVal \/ CompraDe(src) = Zero)
                => Len(ResultadosDe(src)) = 0
          /\ (CompraDe(src) # NoneVal /\ Lt(CompraDe(src), Zero))
                => /\ Len(ResultadosDe(src)) = Len(Delivered(idx - 1))
                   /\ \A i \in 1..Len(ResultadosDe(src)) :
                         ResultadosDe(src)[i].Detalles.costo_inicial_ars
                             = Mul(volumen_usd, CompraDe(src))

C13_Witness ==
    /\ AfterLoop
    /\ dolar_compra = Zero
    /\ mep_compra # NoneVal /\ Lt(mep_compra, Zero)
    /\ Len(Delivered(idx - 1)) >= 2
    /\ Len(resultados_oficial) = 0
    /\ Len(resultados_mep) = Len(Delivered(idx - 1))

(* C17: in the comparison view, for each source with a positive buy price, *)
(* the best-opportunity panel shows "no viable opportunities" iff no row   *)
(* of that source is viable; the viable rows are a prefix of the sorted    *)
(* table, and the top-5 selection is that prefix cut at five rows, whose   *)
(* profit is at least that of every row left out.                          *)
C17_PanelIffNoViable ==
    ComparisonShown => \A src \in Sources :
        (CompraDe(src) # NoneVal /\ Lt(Zero, CompraDe(src))) =>
            LET df == DfDe(src)
                k == NumViables(ResultadosDe(src))
            IN  /\ PanelDe(src) \in {"success", "error"}
                /\ PanelDe(src) = "error" <=> k = 0
                /\ \A i \in 1..Len(df) : df[i].Viable <=> i <= k
                /\ \A i \in 1..Len(df) :
                      df[i].Viable <=> Lt(Zero, df[i].Ganancia_ARS)
                /\ TopDe(src) = SubSeq(df, 1, Min(5, k))
                /\ \A i \in 1..Len(TopDe(src)) :
                      \A j \in (Len(TopDe(src)) + 1)..Len(df) :
                          Leq(df[j].Ganancia_ARS, TopDe(src)[i].Ganancia_ARS)

C17_Witness ==
    /\ ComparisonShown
    /\ Lt(Zero, dolar_compra) /\ Lt(Zero, mep_compra)
    /\ NumViables(df_oficial) > 5
    /\ Len(top_oficial) = 5
    /\ panel_oficial = "success"
    /\ NumViables(df_mep) > 0
    /\ NumViables(df_mep) < Len(df_mep)

C17_WitnessNoViable ==
    /\ ComparisonShown
    /\ Lt(Zero, dolar_compra) /\ Lt(Zero, mep_compra)
    /\ Len(df_oficial) >= 2
    /\ panel_oficial = "error"
    /\ panel_mep = "error"
    /\ pc = "shown"

====
